---- MODULE Spec2Model ----
(***************************************************************************)
(* Model of asu/main.py: the index aggregation endpoints                   *)
(* (json_v1_target_index, json_v1_arch_index), the directory view (index)  *)
(* and the response cache that wraps them (@cache(expire=600) on an        *)
(* InMemoryBackend).                                                       *)
(*                                                                         *)
(* Python dicts are functions from a finite set of keys; a missing key is  *)
(* a key outside DOMAIN.  Request paths are sequences of segments.  Every  *)
(* upstream call (parse_packages_file, parse_feeds_conf,                   *)
(* parse_kernel_version, the store reads) is a step of its own whose       *)
(* outcome is drawn from a small set, so upstream data may differ from one *)
(* call to the next.                                                       *)
(***************************************************************************)
EXTENDS Integers, Sequences, FiniteSets, TLC

VARIABLES
    now,        \* wall clock in seconds, int(time.time())
    cache,      \* InMemoryBackend._store: key -> <<>> or <<[data, ttl_ts]>>
    pc,         \* position of each in-flight request
    req,        \* the request each worker serves: [url, query]
    frame,      \* locals of the handler call of each worker
    calls,      \* collaborator calls made by the current handler call, in order
    resp,       \* response of each worker
    writes,     \* history: every backend.set so far, in order
    served,     \* history: number of requests received so far
    env         \* the environment of a run: the workers that accept requests, the
                \* number of requests they receive, the clock readings sampled and
                \* the documents upstream can publish

vars == <<now, cache, pc, req, frame, calls, resp, writes, served, env>>

----------------------------------------------------------------------------
\* Bounds of the model

MaxServed == 2
MaxFeeds == 2
MaxTime == 1200

Workers == {"w1", "w2"}

----------------------------------------------------------------------------
\* Python dict operations

EmptyDict == [k \in {} |-> ""]

\* d.get(k, default)
Get(d, k, default) == IF k \in DOMAIN d THEN d[k] ELSE default

\* d.update(e) with the keys of e kept where d has them
UpdateKeepFirst(d, e) ==
    [k \in DOMAIN d \cup DOMAIN e |-> IF k \in DOMAIN d THEN d[k] ELSE e[k]]

\* d.update(e): every key of e is set in d, the other keys of d are kept
Update(d, e) ==
    [k \in DOMAIN d \cup DOMAIN e |-> IF k \in DOMAIN e THEN e[k] ELSE d[k]]

\* d[k] = v
SetItem(d, k, v) ==
    [j \in DOMAIN d \cup {k} |-> IF j = k THEN v ELSE d[j]]

\* {k: v}
One(k, v) == [j \in {k} |-> v]

----------------------------------------------------------------------------
\* Upstream data the collaborators can return

\* package name -> version
PkgA1 == One("a", "1")
PkgB2 == One("b", "2")
PkgA2B1 == [k \in {"a", "b"} |-> IF k = "a" THEN "2" ELSE "1"]

\* Manifests parse_packages_file can return: with and without a
\* "packages" field, with and without a pass-through field
Manifests ==
    { EmptyDict,
      One("architecture", "x86_64"),
      [packages |-> EmptyDict, architecture |-> "x86_64"],
      [packages |-> PkgA1, architecture |-> "x86_64"],
      [packages |-> PkgA2B1, version |-> "2"],
      One("packages", PkgB2) }

FeedNames == {"base", "luci"}

\* Ordered feed lists parse_feeds_conf can return, of at most n feeds
RECURSIVE FeedLists(_)
FeedLists(n) ==
    IF n = 0 THEN {<<>>}
    ELSE LET shorter == FeedLists(n - 1)
         IN  shorter \cup
             {Append(l, f) : l \in {s \in shorter : Len(s) = n - 1}, f \in FeedNames}

\* Python None, and the values parse_kernel_version can return
None == "None"
KmodsDirectories == {None, "", "6.6.52-1-abcdef"}

\* "if value is not None:" in place of "if value:"
TruthyNotNone(value) == value # None

\* "if value:" for an optional string
Truthy(value) == value \notin {None, ""}

----------------------------------------------------------------------------
\* Request paths: a sequence of segments, one per separator, each segment a
\* sequence of tokens ("/json/v1/snapshots/x86_64-index.json" is
\*  <<<<"json">>, <<"v1">>, <<"snapshots">>, <<"x86_64", "-index.json">>>>).
\* A separator followed by nothing opens an empty segment: "/" is one empty
\* segment, "//overview" an empty segment and then "overview".

Seg(name) == <<name>>
TargetUrl(path) == <<Seg("json"), Seg("v1")>> \o path \o <<Seg("index.json")>>
ArchUrl(path, arch) == <<Seg("json"), Seg("v1")>> \o path \o <<<<arch, "-index.json">>>>
EmptySegment == <<>>
RootUrl == <<EmptySegment>>
OverviewUrl == <<Seg("overview")>>

SnapshotPath == <<Seg("snapshots"), Seg("targets")>>
ReleasePath == <<Seg("releases"), Seg("23.05.5")>>

\* Documents in the directory mounted at "/json", by their path in it
OverviewDocument == <<Seg("v1"), Seg("overview.json")>>
TargetDocument == <<Seg("v1")>> \o SnapshotPath \o <<Seg("index.json")>>
Files == {OverviewDocument, TargetDocument}

StaticUrl(document) == <<Seg("json")>> \o document

\* The path with one more separator in front, or after its n-th segment
DoubleSlash(url) == <<EmptySegment>> \o url
DoubleSlashAfter(url, n) ==
    SubSeq(url, 1, n) \o <<EmptySegment>> \o SubSeq(url, n + 1, Len(url))

CachedUrls ==
    { RootUrl,
      TargetUrl(SnapshotPath), TargetUrl(ReleasePath),
      ArchUrl(SnapshotPath, "x86_64"), ArchUrl(SnapshotPath, "mips_24kc") }

FewUrls ==
    CachedUrls
    \cup { OverviewUrl, StaticUrl(OverviewDocument), DoubleSlash(OverviewUrl),
           <<Seg("favicon.ico")>> }

\* The paths of the runs that exercise the cache: one of every route
CacheUrls == FewUrls \ {TargetUrl(ReleasePath), ArchUrl(SnapshotPath, "mips_24kc")}

\* The paths of the runs with every document: one arch suffices there
Urls ==
    (FewUrls \ {ArchUrl(SnapshotPath, "mips_24kc")})
    \cup { DoubleSlash(RootUrl), DoubleSlash(StaticUrl(OverviewDocument)),
           DoubleSlashAfter(StaticUrl(OverviewDocument), 1),
           DoubleSlash(DoubleSlashAfter(StaticUrl(OverviewDocument), 1)),
           StaticUrl(<<Seg("v1"), Seg("branches.json")>>),
           <<Seg("json")>>, OverviewUrl \o <<EmptySegment>> }

Queries == {"", "x=1"}

\* The route table, in registration order: the first route whose path
\* template matches the whole path handles the request.
\*   "/"                                          -> index
\*   "/json/v1/{path:path}/index.json"            -> json_v1_target_index
\*   "/json/v1/{path:path}/{arch:path}-index.json" -> json_v1_arch_index
\* A handler is called with the path parameters of its template; no handler
\* declares a query parameter, so the query string binds nothing.
UnderJsonV1(url) ==
    /\ Len(url) >= 4
    /\ url[1] = Seg("json")
    /\ url[2] = Seg("v1")

MatchesTarget(url) == UnderJsonV1(url) /\ url[Len(url)] = Seg("index.json")

MatchesArch(url) ==
    /\ UnderJsonV1(url)
    /\ Len(url[Len(url)]) = 2
    /\ url[Len(url)][2] = "-index.json"

PathParam(url) == SubSeq(url, 3, Len(url) - 1)

\* The route table with handlers that take the query string as a parameter
RouteKeepQuery(url, query) ==
    IF url = RootUrl
      THEN [func |-> "index", kwargs |-> One("query", query)]
    ELSE IF MatchesTarget(url)
      THEN [func |-> "json_v1_target_index",
            kwargs |-> [path |-> PathParam(url), query |-> query]]
    ELSE IF MatchesArch(url)
      THEN [func |-> "json_v1_arch_index",
            kwargs |-> [path |-> PathParam(url), arch |-> url[Len(url)][1],
                        query |-> query]]
    ELSE [func |-> "none", kwargs |-> EmptyDict]

\* The route table with a template that binds the same arch for every path
RouteArchLost(url, query) ==
    IF url = RootUrl
      THEN [func |-> "index", kwargs |-> EmptyDict]
    ELSE IF MatchesTarget(url)
      THEN [func |-> "json_v1_target_index", kwargs |-> One("path", PathParam(url))]
    ELSE IF MatchesArch(url)
      THEN [func |-> "json_v1_arch_index",
            kwargs |-> [path |-> PathParam(url), arch |-> ""]]
    ELSE [func |-> "none", kwargs |-> EmptyDict]

Route(url, query) ==
    IF url = RootUrl
      THEN [func |-> "index", kwargs |-> EmptyDict]
    ELSE IF MatchesTarget(url)
      THEN [func |-> "json_v1_target_index", kwargs |-> One("path", PathParam(url))]
    ELSE IF MatchesArch(url)
      THEN [func |-> "json_v1_arch_index",
            kwargs |-> [path |-> PathParam(url), arch |-> url[Len(url)][1]]]
    ELSE [func |-> "none", kwargs |-> EmptyDict]

\* The whole route table, in registration order:
\*   mount "/store", mount "/static"
\*   the cached routes (above)
\*   mount "/json"
\*   "//{path:path}"  -> api_double_slash
\*   "/overview"      -> api_overview
\* A mount matches every path that goes on below its prefix.
Mounted(url, name) == Len(url) >= 2 /\ url[1] = Seg(name)

StaticFiles(directory, url) ==
    [func |-> "StaticFiles", kwargs |-> [directory |-> directory, path |-> Tail(url)]]

Routes(url, query) ==
    IF Mounted(url, "store") THEN StaticFiles("store", url)
    ELSE IF Mounted(url, "static") THEN StaticFiles("static", url)
    ELSE IF Route(url, query).func # "none" THEN Route(url, query)
    ELSE IF Mounted(url, "json") THEN StaticFiles("json", url)
    ELSE IF Len(url) >= 2 /\ url[1] = EmptySegment
      THEN [func |-> "api_double_slash", kwargs |-> One("path", Tail(url))]
    ELSE IF url = OverviewUrl
      THEN [func |-> "api_overview", kwargs |-> EmptyDict]
    ELSE [func |-> "none", kwargs |-> EmptyDict]

\* The path with its trailing separator dropped, or with one added
RedirectSlashes(url) ==
    IF url[Len(url)] = EmptySegment
      THEN SubSeq(url, 1, Len(url) - 1)
      ELSE url \o <<EmptySegment>>

\* The handlers whose results go through the cache
Cached == {"index", "json_v1_target_index", "json_v1_arch_index"}

\* Path of a file below a mounted directory: empty segments are dropped
NormPath(path) == SelectSeq(path, LAMBDA segment : segment # EmptySegment)

----------------------------------------------------------------------------
\* Collaborators (asu.util): outcomes of one call

Failed == [ok |-> FALSE, out |-> <<>>]
Returned(value) == [ok |-> TRUE, out |-> <<value>>]

\* parse_packages_file(url): a manifest, or the fetch fails
ParsePackagesFileOutcomes == {Returned(m) : m \in env.manifests} \cup {Failed}

\* parse_feeds_conf(url): an ordered list of feed names, maybe empty, or fails
ParseFeedsConfOutcomes == {Returned(l) : l \in env.feed_lists} \cup {Failed}

\* parse_kernel_version(url): a directory name, nothing, or the fetch fails
ParseKernelVersionOutcomes == {Returned(d) : d \in env.kmods_directories} \cup {Failed}

\* is_post_kmod_split_build(path): decided by the target path alone
is_post_kmod_split_build(path) == path[1] = Seg("snapshots")

\* Names in the shared store are strings, modelled as sequences of
\* character codes so that they can be ordered
LexLess(a, b) ==
    \E i \in 1..(Len(a) + 1) :
        /\ i <= Len(b)
        /\ \A j \in 1..(i - 1) : j <= Len(a) /\ a[j] = b[j]
        /\ (i = Len(a) + 1 \/ (i <= Len(a) /\ a[i] < b[i]))

\* The iterable used as it comes, without sorting
sortedMissing(iterable) == iterable

\* sorted(iterable of strings): the items are inserted one by one, each after
\* the items already placed that are not greater (the sort is stable)
RECURSIVE sorted(_)
sorted(iterable) ==
    IF iterable = <<>> THEN <<>>
    ELSE LET placed == sorted(SubSeq(iterable, 1, Len(iterable) - 1))
             item == iterable[Len(iterable)]
             k == Cardinality({i \in 1..Len(placed) : ~LexLess(item, placed[i])})
         IN  SubSeq(placed, 1, k) \o <<item>> \o SubSeq(placed, k + 1, Len(placed))

\* Contents of the shared store: the set "branches" and the sets
\* "versions:{branch}" (a missing set reads as empty)
StoreContents ==
    { [branches |-> {}, versions |-> EmptyDict],
      [branches |-> {<<2, 3>>, <<2>>},
       versions |-> [b \in {<<2, 3>>, <<2>>} |->
                        IF b = <<2>> THEN {<<2, 1>>, <<1, 9>>, <<2>>} ELSE {}]],
      [branches |-> {<<2, 3>>, <<1, 9>>, <<2, 3, 0>>},
       versions |-> One(<<1, 9>>, {<<1, 9, 7>>, <<1, 9, 0>>})] }

\* The orders in which a set can be iterated
Iterations(S) ==
    {it \in [1..Cardinality(S) -> S] : \A i, j \in DOMAIN it : i # j => it[i] # it[j]}

\* smembers returns a set; what a read of the store returns is each of its
\* sets in one of its iteration orders
Smembers(content) ==
    {[branches |-> b, versions |-> v] :
        b \in Iterations(content.branches),
        v \in [DOMAIN content.versions ->
                  UNION {Iterations(content.versions[n]) : n \in DOMAIN content.versions}]}

SmembersOutcomes ==
    {Returned(read) :
        read \in UNION {{r \in Smembers(c) :
                            \A n \in DOMAIN c.versions :
                                {r.versions[n][i] : i \in DOMAIN r.versions[n]}
                                    = c.versions[n]} : c \in env.stores}}
    \cup {Failed}

----------------------------------------------------------------------------
\* Response cache: @cache(expire=600) over FastAPICache's InMemoryBackend

\* @cache(expire=...) with half and with twice the time to live
expire_halved == 600 \div 2

expire_doubled == 600 * 2

\* @cache(expire=600)
expire == 600

\* Clock readings the model samples, around the expiry of an entry
Times == {t \in {0, 599, 600, 601, 1200, 1201} : t <= MaxTime}

\* The key of a handler call: the handler and the arguments it is called with
KeyBuilder(route) == <<route.func, route.kwargs>>

\* The coder: the stored value is a serialized snapshot of the result
Encode(value) == <<"bytes", value>>
Decode(data) == data[2]

\* InMemoryBackend._get: the entry, unless it has expired
Valid(key) == key \in DOMAIN cache /\ cache[key].ttl_ts >= now

\* InMemoryBackend._get deletes an expired entry it finds
Evict(key) ==
    IF key \in DOMAIN cache /\ ~Valid(key)
      THEN [k \in DOMAIN cache \ {key} |-> cache[k]]
      ELSE cache

----------------------------------------------------------------------------
\* State of a worker

NoFrame ==
    [base_packages |-> EmptyDict, kmods_directory |-> None,
     feeds |-> <<>>, i |-> 0, packages |-> EmptyDict, ret |-> <<>>]

NoReq == [url |-> <<>>, query |-> "", func |-> "none", kwargs |-> EmptyDict]

NoResp == [status |-> "none", body |-> <<>>, error |-> "", hit |-> FALSE]

Key(w) == KeyBuilder([func |-> req[w].func, kwargs |-> req[w].kwargs])

Call(op, arg, outcome) == [op |-> op, arg |-> arg, ok |-> outcome.ok, out |-> outcome.out]

FirstStep(func) ==
    CASE func = "index" -> "index"
      [] func = "json_v1_target_index" -> "target_base_packages"
      [] func = "json_v1_arch_index" -> "arch_feeds"

InitWith(environment) ==
    /\ now = 0
    /\ cache = EmptyDict
    /\ pc = [w \in Workers |-> "idle"]
    /\ req = [w \in Workers |-> NoReq]
    /\ frame = [w \in Workers |-> NoFrame]
    /\ calls = [w \in Workers |-> <<>>]
    /\ resp = [w \in Workers |-> NoResp]
    /\ writes = <<>>
    /\ served = 0
    /\ env = environment

\* Two requests one after the other, every document upstream can publish
Init ==
    InitWith([workers |-> {"w1"}, budget |-> 2, times |-> {0, 601},
              queries |-> {""}, urls |-> Urls, files |-> Files,
              manifests |-> Manifests, feed_lists |-> FeedLists(MaxFeeds),
              kmods_directories |-> KmodsDirectories, stores |-> StoreContents])

\* The documents upstream publishes in the runs that exercise the cache
FewManifests == {[packages |-> PkgA1, architecture |-> "x86_64"], One("packages", PkgB2)}
FewFeedLists == {<<>>, <<"base">>}
FewKmodsDirectories == {"", "6.6.52-1-abcdef"}
FewStoreContents == {[branches |-> {<<2>>}, versions |-> One(<<2>>, {<<2, 1>>})]}

\* A few requests one after the other, over the sampled clock readings
InitCache ==
    InitWith([workers |-> {"w1"}, budget |-> MaxServed, times |-> Times,
              queries |-> {""}, urls |-> CacheUrls, files |-> Files,
              manifests |-> FewManifests, feed_lists |-> FewFeedLists,
              kmods_directories |-> FewKmodsDirectories, stores |-> FewStoreContents])

\* Two requests in flight at the same time
InitRace ==
    InitWith([workers |-> Workers, budget |-> 2, times |-> {0, 601},
              queries |-> Queries, urls |-> FewUrls, files |-> Files,
              manifests |-> FewManifests, feed_lists |-> FewFeedLists,
              kmods_directories |-> FewKmodsDirectories, stores |-> FewStoreContents])

----------------------------------------------------------------------------
\* The clock advances.  No step of a handler reads the clock: the readings
\* that matter are those at a cache lookup and at a cache store, so the
\* time a handler takes passes before its result is stored.
Tick ==
    /\ \A w \in Workers : pc[w] \in {"idle", "set", "done"}
    /\ \E t \in env.times : t > now /\ now' = t
    /\ UNCHANGED <<cache, pc, req, frame, calls, resp, writes, served, env>>

\* A request arrives and the cache holds a valid entry for its key: the
\* stored value is decoded and returned, the handler is not called
CacheHit(w, url, query) ==
    LET route == Routes(url, query)
        key == KeyBuilder(route)
    IN  /\ w \in env.workers
        /\ pc[w] = "idle"
        /\ served < env.budget
        /\ route.func \in Cached
        /\ Valid(key)
        /\ req' = [req EXCEPT ![w] =
                     [url |-> url, query |-> query,
                      func |-> route.func, kwargs |-> route.kwargs]]
        /\ resp' = [resp EXCEPT ![w] =
                     [status |-> "200", body |-> <<Decode(cache[key].data)>>,
                      error |-> "", hit |-> TRUE]]
        /\ pc' = [pc EXCEPT ![w] = "done"]
        /\ served' = served + 1
        /\ UNCHANGED <<now, cache, frame, calls, writes, env>>

\* A request arrives and the cache holds no valid entry for its key: an
\* expired entry is dropped and the handler is called
CacheMiss(w, url, query) ==
    LET route == Routes(url, query)
        key == KeyBuilder(route)
    IN  /\ w \in env.workers
        /\ pc[w] = "idle"
        /\ served < env.budget
        /\ route.func \in Cached
        /\ ~Valid(key)
        /\ cache' = Evict(key)
        /\ req' = [req EXCEPT ![w] =
                     [url |-> url, query |-> query,
                      func |-> route.func, kwargs |-> route.kwargs]]
        /\ pc' = [pc EXCEPT ![w] = FirstStep(route.func)]
        /\ served' = served + 1
        /\ UNCHANGED <<now, frame, calls, resp, writes, env>>

\* A request to a handler outside the cache is answered in one step
Answer(w, url, query, route, status, body) ==
    /\ req' = [req EXCEPT ![w] =
                 [url |-> url, query |-> query,
                  func |-> route.func, kwargs |-> route.kwargs]]
    /\ resp' = [resp EXCEPT ![w] =
                 [status |-> status, body |-> body, error |-> "", hit |-> FALSE]]
    /\ pc' = [pc EXCEPT ![w] = "done"]
    /\ served' = served + 1
    /\ UNCHANGED <<now, cache, frame, calls, writes, env>>

\* A mounted directory serves the file the rest of the path names, as it is
\* on disk, or answers that there is none
ServeStatic(w, url, query) ==
    LET route == Routes(url, query)
        document == NormPath(route.kwargs["path"])
    IN  /\ w \in env.workers
        /\ pc[w] = "idle"
        /\ served < env.budget
        /\ route.func = "StaticFiles"
        /\ IF route.kwargs["directory"] = "json" /\ document \in env.files
             THEN Answer(w, url, query, route, "200", <<One("file", document)>>)
             ELSE Answer(w, url, query, route, "404", <<>>)

\* return RedirectResponse(f"/{path}", status_code=301)
ApiDoubleSlash(w, url, query) ==
    LET route == Routes(url, query)
    IN  /\ w \in env.workers
        /\ pc[w] = "idle"
        /\ served < env.budget
        /\ route.func = "api_double_slash"
        /\ Answer(w, url, query, route, "301", <<route.kwargs["path"]>>)

\* return RedirectResponse("/json/v1/overview.json", status_code=301)
ApiOverview(w, url, query) ==
    LET route == Routes(url, query)
    IN  /\ w \in env.workers
        /\ pc[w] = "idle"
        /\ served < env.budget
        /\ route.func = "api_overview"
        /\ Answer(w, url, query, route, "301", <<StaticUrl(OverviewDocument)>>)

\* No route matches: the router redirects to the path with the trailing
\* separator dropped or added when that one has a route, and answers
\* "not found" otherwise
Unmatched(w, url, query) ==
    LET route == Routes(url, query)
    IN  /\ w \in env.workers
        /\ pc[w] = "idle"
        /\ served < env.budget
        /\ route.func = "none"
        /\ IF url # RootUrl /\ Routes(RedirectSlashes(url), query).func # "none"
             THEN Answer(w, url, query, route, "307", <<RedirectSlashes(url)>>)
             ELSE Answer(w, url, query, route, "404", <<>>)

\* What a step of a handler leaves behind: the call it made is logged, and
\* the handler either goes on, returns, or raises
\* The error is caught and handed back as the handler's result
RaiseStored(w, error) ==
    /\ frame' = [frame EXCEPT ![w] = [@ EXCEPT !.ret = <<One("error", error)>>]]
    /\ pc' = [pc EXCEPT ![w] = "set"]
    /\ UNCHANGED resp

Raise(w, error) ==
    /\ resp' = [resp EXCEPT ![w] =
                 [status |-> "error", body |-> <<>>, error |-> error, hit |-> FALSE]]
    /\ pc' = [pc EXCEPT ![w] = "done"]
    /\ UNCHANGED frame

Return(w, fr, value) ==
    /\ frame' = [frame EXCEPT ![w] = [fr EXCEPT !.ret = <<value>>]]
    /\ pc' = [pc EXCEPT ![w] = "set"]
    /\ UNCHANGED resp

Goto(w, fr, label) ==
    /\ frame' = [frame EXCEPT ![w] = fr]
    /\ pc' = [pc EXCEPT ![w] = label]
    /\ UNCHANGED resp

----------------------------------------------------------------------------
\* json_v1_target_index(path)

\* base_packages["packages"].update(kmod_packages.get("packages", {}))
\* with the base document's packages replaced instead of updated
MergeKmodsReplace(base_packages, kmod_packages) ==
    [base_packages EXCEPT !["packages"] = Get(kmod_packages, "packages", EmptyDict)]

\* ... with the whole kmod manifest merged into the base document
MergeKmodsTopLevel(base_packages, kmod_packages) ==
    Update([base_packages EXCEPT
               !["packages"] = Update(@, Get(kmod_packages, "packages", EmptyDict))],
           [k \in DOMAIN kmod_packages \ {"packages"} |-> kmod_packages[k]])

\* base_packages["packages"].update(kmod_packages.get("packages", {}))
MergeKmods(base_packages, kmod_packages) ==
    [base_packages EXCEPT
        !["packages"] = Update(@, Get(kmod_packages, "packages", EmptyDict))]

\* The kmod branch taken whatever the split detector says
SplitBranchAlways(split) == TRUE

\* "if is_post_kmod_split_build(path):"
SplitBranch(split) == split

\* The base manifest fetch fails and is tried again
TargetBaseFailedRetry(w) == Goto(w, frame[w], "target_base_packages")

\* The base manifest fetch fails: nothing catches the error, the call fails
TargetBaseFailed(w) == Raise(w, "UpstreamFetchError")

\* The kmod directory resolution or the kmod manifest fetch fails and the
\* base document is returned all the same
TargetKmodsFailedDegrade(w) == Return(w, frame[w], frame[w].base_packages)

\* The kmod directory resolution or the kmod manifest fetch fails: nothing
\* catches the error, the call fails
TargetKmodsFailed(w) == Raise(w, "UpstreamFetchError")

\* base_packages = parse_packages_file(f"{base_path}/packages")
\* if is_post_kmod_split_build(path): ... (else) return base_packages
TargetBasePackages(w) ==
    /\ pc[w] = "target_base_packages"
    /\ \E outcome \in ParsePackagesFileOutcomes :
         LET path == req[w].kwargs["path"]
             fetch == Call("parse_packages_file", path \o <<Seg("packages")>>, outcome)
         IN  IF ~outcome.ok
               THEN /\ calls' = [calls EXCEPT ![w] = Append(@, fetch)]
                    /\ TargetBaseFailed(w)
               ELSE LET split == is_post_kmod_split_build(path)
                        fr == [frame[w] EXCEPT !.base_packages = outcome.out[1]]
                    IN  /\ calls' = [calls EXCEPT ![w] =
                                       @ \o <<fetch, Call("is_post_kmod_split_build",
                                                         path, Returned(split))>>]
                        /\ IF SplitBranch(split)
                             THEN Goto(w, fr, "target_kmods_directory")
                             ELSE Return(w, fr, fr.base_packages)
    /\ UNCHANGED <<now, cache, req, writes, served, env>>

\* kmods_directory = parse_kernel_version(f"{base_path}/profiles.json")
\* if kmods_directory: ... (else) return base_packages
TargetKmodsDirectory(w) ==
    /\ pc[w] = "target_kmods_directory"
    /\ \E outcome \in ParseKernelVersionOutcomes :
         LET path == req[w].kwargs["path"]
         IN  /\ calls' = [calls EXCEPT ![w] =
                            Append(@, Call("parse_kernel_version",
                                           path \o <<Seg("profiles.json")>>, outcome))]
             /\ IF ~outcome.ok
                  THEN TargetKmodsFailed(w)
                  ELSE LET fr == [frame[w] EXCEPT !.kmods_directory = outcome.out[1]]
                       IN  IF Truthy(fr.kmods_directory)
                             THEN Goto(w, fr, "target_kmod_packages")
                             ELSE Return(w, fr, fr.base_packages)
    /\ UNCHANGED <<now, cache, req, writes, served, env>>

\* kmod_packages = parse_packages_file(f"{base_path}/kmods/{kmods_directory}")
\* base_packages["packages"].update(kmod_packages.get("packages", {}))
\* return base_packages
TargetKmodPackages(w) ==
    /\ pc[w] = "target_kmod_packages"
    /\ \E outcome \in ParsePackagesFileOutcomes :
         LET path == req[w].kwargs["path"]
             url == path \o <<Seg("kmods"), Seg(frame[w].kmods_directory)>>
         IN  /\ calls' = [calls EXCEPT ![w] =
                            Append(@, Call("parse_packages_file", url, outcome))]
             /\ IF ~outcome.ok
                  THEN TargetKmodsFailed(w)
                  ELSE IF "packages" \notin DOMAIN frame[w].base_packages
                  THEN Raise(w, "KeyError")
                  ELSE LET fr == [frame[w] EXCEPT !.base_packages =
                                     MergeKmods(@, outcome.out[1])]
                       IN  Return(w, fr, fr.base_packages)
    /\ UNCHANGED <<now, cache, req, writes, served, env>>

----------------------------------------------------------------------------
\* json_v1_arch_index(path, arch)

\* packages.update(parse_packages_file(...).get("packages", {})) with the
\* packages already collected winning over the feed's
MergeFeedKeepFirst(packages, manifest) ==
    UpdateKeepFirst(packages, Get(manifest, "packages", EmptyDict))

\* ... with the whole manifest merged instead of its packages
MergeFeedWhole(packages, manifest) == Update(packages, manifest)

\* packages.update(parse_packages_file(...).get("packages", {}))
MergeFeed(packages, manifest) ==
    Update(packages, Get(manifest, "packages", EmptyDict))

\* A feed's manifest fetch fails and the packages merged so far are returned
ArchFeedFailedPartial(w) == Return(w, frame[w], frame[w].packages)

\* A feed's manifest fetch fails: nothing catches the error, the call fails
ArchFeedFailed(w) == Raise(w, "UpstreamFetchError")

\* feeds = parse_feeds_conf(feed_url); packages = {}; for feed in feeds: ...
ArchFeeds(w) ==
    /\ pc[w] = "arch_feeds"
    /\ \E outcome \in ParseFeedsConfOutcomes :
         LET feed_url == req[w].kwargs["path"] \o <<Seg(req[w].kwargs["arch"])>>
         IN  /\ calls' = [calls EXCEPT ![w] =
                            Append(@, Call("parse_feeds_conf", feed_url, outcome))]
             /\ IF ~outcome.ok
                  THEN Raise(w, "UpstreamFetchError")
                  ELSE LET fr == [frame[w] EXCEPT !.feeds = outcome.out[1],
                                                  !.packages = EmptyDict,
                                                  !.i = 1]
                       IN  IF fr.feeds = <<>>
                             THEN Return(w, fr, fr.packages)
                             ELSE Goto(w, fr, "arch_feed")
    /\ UNCHANGED <<now, cache, req, writes, served, env>>

\* The loop takes the feeds from the last of the list to the first
ForFeedReversed(feeds, i) == feeds[Len(feeds) + 1 - i]

\* for feed in feeds: the feed of the i-th iteration
ForFeed(feeds, i) == feeds[i]

\* one iteration of the loop over feeds; return packages after the last
ArchFeed(w) ==
    /\ pc[w] = "arch_feed"
    /\ \E outcome \in ParsePackagesFileOutcomes :
         LET feed == ForFeed(frame[w].feeds, frame[w].i)
             url == req[w].kwargs["path"] \o <<Seg(req[w].kwargs["arch"]), Seg(feed)>>
         IN  /\ calls' = [calls EXCEPT ![w] =
                            Append(@, Call("parse_packages_file", url, outcome))]
             /\ IF ~outcome.ok
                  THEN ArchFeedFailed(w)
                  ELSE LET fr == [frame[w] EXCEPT
                                     !.packages = MergeFeed(@, outcome.out[1]),
                                     !.i = @ + 1]
                       IN  IF fr.i > Len(fr.feeds)
                             THEN Return(w, fr, fr.packages)
                             ELSE Goto(w, fr, "arch_feed")
    /\ UNCHANGED <<now, cache, req, writes, served, env>>

----------------------------------------------------------------------------
\* index(request): the branches of the shared store and their versions

\* branches = dict(map(lambda b: (b, {"versions": sorted(smembers(f"versions:{b}"))}),
\*                     sorted(smembers("branches"))))
\* A dict keeps insertion order: a sequence of <<branch, {"versions": [...]}>>
Branches(store) ==
    LET names == sorted(store.branches)
    IN  [n \in 1..Len(names) |->
            <<names[n], One("versions", sorted(Get(store.versions, names[n], <<>>)))>>]

Index(w) ==
    /\ pc[w] = "index"
    /\ \E outcome \in SmembersOutcomes :
         /\ calls' = [calls EXCEPT ![w] = Append(@, Call("smembers", <<>>, outcome))]
         /\ IF ~outcome.ok
              THEN Raise(w, "StoreUnavailableError")
              ELSE Return(w, frame[w], One("branches", Branches(outcome.out[1])))
    /\ UNCHANGED <<now, cache, req, writes, served, env>>

----------------------------------------------------------------------------
\* The store keeps an entry that is still valid (the first writer wins)
CacheSetKeepFirst(w) ==
    /\ pc[w] = "set"
    /\ cache' = IF Valid(Key(w)) THEN cache
                ELSE SetItem(cache, Key(w),
                             [data |-> Encode(frame[w].ret[1]), ttl_ts |-> now + expire])
    /\ writes' = Append(writes, [key |-> Key(w), url |-> req[w].url, by |-> w, at |-> now,
                                 data |-> Encode(frame[w].ret[1])])
    /\ resp' = [resp EXCEPT ![w] =
                 [status |-> "200", body |-> frame[w].ret,
                  error |-> "", hit |-> FALSE]]
    /\ pc' = [pc EXCEPT ![w] = "done"]
    /\ UNCHANGED <<now, req, frame, calls, served, env>>

\* The handler returned: its result is stored under the key of the request
\* with a fresh expiry, and returned
CacheSet(w) ==
    /\ pc[w] = "set"
    /\ cache' = SetItem(cache, Key(w),
                        [data |-> Encode(frame[w].ret[1]), ttl_ts |-> now + expire])
    /\ writes' = Append(writes, [key |-> Key(w), url |-> req[w].url, by |-> w, at |-> now,
                                 data |-> Encode(frame[w].ret[1])])
    /\ resp' = [resp EXCEPT ![w] =
                 [status |-> "200", body |-> frame[w].ret,
                  error |-> "", hit |-> FALSE]]
    /\ pc' = [pc EXCEPT ![w] = "done"]
    /\ UNCHANGED <<now, req, frame, calls, served, env>>

\* The response is sent; the worker is free for the next request
Respond(w) ==
    /\ pc[w] = "done"
    /\ pc' = [pc EXCEPT ![w] = "idle"]
    /\ req' = [req EXCEPT ![w] = NoReq]
    /\ frame' = [frame EXCEPT ![w] = NoFrame]
    /\ calls' = [calls EXCEPT ![w] = <<>>]
    /\ resp' = [resp EXCEPT ![w] = NoResp]
    /\ UNCHANGED <<now, cache, writes, served, env>>

Next ==
    \/ Tick
    \/ \E w \in Workers, url \in env.urls, query \in env.queries : CacheHit(w, url, query)
    \/ \E w \in Workers, url \in env.urls, query \in env.queries : CacheMiss(w, url, query)
    \/ \E w \in Workers, url \in env.urls, query \in env.queries : ServeStatic(w, url, query)
    \/ \E w \in Workers, url \in env.urls, query \in env.queries : ApiDoubleSlash(w, url, query)
    \/ \E w \in Workers, url \in env.urls, query \in env.queries : ApiOverview(w, url, query)
    \/ \E w \in Workers, url \in env.urls, query \in env.queries : Unmatched(w, url, query)
    \/ \E w \in Workers : TargetBasePackages(w)
    \/ \E w \in Workers : TargetKmodsDirectory(w)
    \/ \E w \in Workers : TargetKmodPackages(w)
    \/ \E w \in Workers : ArchFeeds(w)
    \/ \E w \in Workers : ArchFeed(w)
    \/ \E w \in Workers : Index(w)
    \/ \E w \in Workers : CacheSet(w)
    \/ \E w \in Workers : Respond(w)

Spec == Init /\ [][Next]_vars

SpecCache == InitCache /\ [][Next]_vars

SpecRace == InitRace /\ [][Next]_vars

----------------------------------------------------------------------------
\* Properties

\* The handler call of worker w has ended (it returned or raised) and its
\* response was not taken from the cache
Called(w, func) == pc[w] = "done" /\ req[w].func = func /\ ~resp[w].hit

Succeeded(w) == resp[w].status = "200"

\* The package mapping a manifest contributes to a merge
PackagesOf(manifest) ==
    IF "packages" \in DOMAIN manifest THEN manifest["packages"] ELSE EmptyDict

\* The manifests of the feeds, in the order json_v1_arch_index fetched them
FeedManifests(w) == [n \in 1..(Len(calls[w]) - 1) |-> calls[w][n + 1].out[1]]

\* C1: when the feed list is resolved and every feed's manifest fetch
\* succeeds, json_v1_arch_index returns one manifest per listed feed merged
\* right-biased: the names are those of all feeds' packages, each name has
\* the value of the last feed that defines it, and nothing else is returned
C1_ArchIndexIsRightBiasedUnion ==
    \A w \in Workers :
        (Called(w, "json_v1_arch_index") /\ \A n \in DOMAIN calls[w] : calls[w][n].ok)
        => /\ Succeeded(w)
           /\ LET feeds == calls[w][1].out[1]
                  fetched == FeedManifests(w)
                  body == resp[w].body[1]
              IN  /\ Len(fetched) = Len(feeds)
                  /\ DOMAIN body =
                       UNION {DOMAIN PackagesOf(fetched[n]) : n \in DOMAIN fetched}
                  /\ \A name \in DOMAIN body :
                       \E n \in DOMAIN fetched :
                           /\ name \in DOMAIN PackagesOf(fetched[n])
                           /\ \A later \in (n + 1)..Len(fetched) :
                                  name \notin DOMAIN PackagesOf(fetched[later])
                           /\ body[name] = PackagesOf(fetched[n])[name]

\* C1 witness: two feeds define package "a" with different values, the
\* second also defines "b"; a third kind of manifest has no packages field
C1_Witness ==
    \E w \in Workers :
        /\ Called(w, "json_v1_arch_index") /\ Succeeded(w)
        /\ Len(calls[w]) = 3
        /\ calls[w][2].out = <<[packages |-> PkgA1, architecture |-> "x86_64"]>>
        /\ calls[w][3].out = <<[packages |-> PkgA2B1, version |-> "2"]>>
        /\ resp[w].body = <<PkgA2B1>>

C3_NoSplitReturnsBase ==
    \A w \in Workers :
        ( /\ Called(w, "json_v1_target_index")
          /\ Len(calls[w]) >= 2
          /\ calls[w][2].op = "is_post_kmod_split_build"
          /\ calls[w][2].out = <<FALSE>> )
        => /\ Succeeded(w)
           /\ resp[w].body = calls[w][1].out
           /\ Len(calls[w]) = 2

\* C3 witness: a release target, whose base manifest has a pass-through field
C3_Witness ==
    \E w \in Workers :
        /\ Called(w, "json_v1_target_index") /\ Succeeded(w)
        /\ req[w].kwargs["path"] = ReleasePath
        /\ calls[w][2].out = <<FALSE>>
        /\ resp[w].body = <<[packages |-> PkgA1, architecture |-> "x86_64"]>>

\* C4: with the split detected and parse_kernel_version returning None or an
\* empty name, json_v1_target_index succeeds, returns the base manifest as
\* fetched and does not fetch a kmod manifest
C4_NoKmodsDirectoryReturnsBase ==
    \A w \in Workers :
        ( /\ Called(w, "json_v1_target_index")
          /\ Len(calls[w]) >= 3
          /\ calls[w][3].ok /\ calls[w][3].out[1] \in {None, ""} )
        => /\ Succeeded(w)
           /\ resp[w].body = calls[w][1].out
           /\ Len(calls[w]) = 3

\* C4 witness: the split is detected and the resolved name is empty
C4_Witness ==
    \E w \in Workers :
        /\ Called(w, "json_v1_target_index") /\ Succeeded(w)
        /\ calls[w][2].out = <<TRUE>>
        /\ Len(calls[w]) = 3 /\ calls[w][3].out = <<"">>
        /\ resp[w].body = <<[packages |-> PkgA2B1, version |-> "2"]>>

\* C7: once a feed's manifest fetch has failed in json_v1_arch_index the
\* call has failed with the fetch error: it returns no manifest, whatever
\* the position of the failing feed
C7_ArchIndexAllOrNothing ==
    \A w \in Workers :
        ( /\ req[w].func = "json_v1_arch_index"
          /\ \E n \in 2..Len(calls[w]) : ~calls[w][n].ok )
        => /\ pc[w] = "done"
           /\ resp[w].status = "error"
           /\ resp[w].error = "UpstreamFetchError"
           /\ resp[w].body = <<>>

\* C7 witness: the second of two feeds fails after the first contributed packages
C7_Witness ==
    \E w \in Workers :
        /\ req[w].func = "json_v1_arch_index" /\ pc[w] = "done"
        /\ Len(calls[w]) = 3
        /\ calls[w][2].out = <<One("packages", PkgB2)>>
        /\ ~calls[w][3].ok
        /\ frame[w].packages = PkgB2
        /\ resp[w].status = "error"

\* C8: once the base manifest fetch has failed in json_v1_target_index the
\* call has failed with the fetch error, and that fetch is the only
\* collaborator call it made
C8_BaseFetchFailureFailsCall ==
    \A w \in Workers :
        ( /\ req[w].func = "json_v1_target_index"
          /\ Len(calls[w]) >= 1
          /\ ~calls[w][1].ok )
        => /\ pc[w] = "done"
           /\ resp[w].status = "error"
           /\ resp[w].error = "UpstreamFetchError"
           /\ Len(calls[w]) = 1

\* C8 witness: the base fetch of a split target fails
C8_Witness ==
    \E w \in Workers :
        /\ req[w].func = "json_v1_target_index" /\ pc[w] = "done"
        /\ req[w].kwargs["path"] = SnapshotPath
        /\ Len(calls[w]) = 1 /\ ~calls[w][1].ok
        /\ resp[w].status = "error"

\* The key of a request, and the last store made under a key or for a path
KeyOf(request) == KeyBuilder([func |-> request.func, kwargs |-> request.kwargs])

WritesOfKey(key) == {n \in DOMAIN writes : writes[n].key = key}
WritesOfUrl(url) == {n \in DOMAIN writes : writes[n].url = url}
Last(indices) == writes[CHOOSE n \in indices : \A m \in indices : m <= n]

\* Worker w receives a request for a cached handler in this step: the
\* cache lookup
Lookup(w) == pc[w] = "idle" /\ pc'[w] # "idle" /\ req'[w].func \in Cached

\* C5: a lookup less than 600 s after the last store under its key returns
\* the stored value and ends the request without a call of the handler or
\* of a collaborator, and leaves the cache as it is
C5_HitWithinTtl ==
    [][ \A w \in Workers :
          ( /\ Lookup(w)
            /\ WritesOfKey(KeyOf(req'[w])) # {}
            /\ now < Last(WritesOfKey(KeyOf(req'[w]))).at + 600 )
          => /\ pc'[w] = "done"
             /\ resp'[w].status = "200" /\ resp'[w].hit
             /\ resp'[w].body = <<Decode(Last(WritesOfKey(KeyOf(req'[w]))).data)>>
             /\ calls'[w] = <<>>
             /\ cache' = cache ]_vars

\* C5 witness: a value stored at time 0 is returned at time 599
C5_Witness ==
    \E w \in Workers :
        /\ pc[w] = "done" /\ resp[w].hit
        /\ now = 599
        /\ Last(WritesOfKey(Key(w))).at = 0
        /\ resp[w].body = <<Decode(Last(WritesOfKey(Key(w))).data)>>

\* The collaborator every successful call of a handler calls exactly once
EntryCall(func) ==
    CASE func = "index" -> "smembers"
      [] func = "json_v1_target_index" -> "is_post_kmod_split_build"
      [] func = "json_v1_arch_index" -> "parse_feeds_conf"

\* C6: a lookup of a key never stored, or more than 600 s after the last
\* store under it, calls the handler; when the handler has returned, having
\* run once, its result is stored under the key with expiry 600 s after the
\* time of this store, and is the response
C6_MissComputesAndStores ==
    [][ \A w \in Workers :
          /\ ( /\ Lookup(w)
               /\ \/ WritesOfKey(KeyOf(req'[w])) = {}
                  \/ now > Last(WritesOfKey(KeyOf(req'[w]))).at + 600 )
             => /\ pc'[w] = FirstStep(req'[w].func)
                /\ calls'[w] = <<>>
                /\ ~resp'[w].hit
                /\ KeyOf(req'[w]) \notin DOMAIN cache'
          /\ (pc[w] = "set" /\ pc'[w] = "done")
             => /\ Cardinality({n \in DOMAIN calls[w] :
                                  calls[w][n].op = EntryCall(req[w].func)}) = 1
                /\ Key(w) \in DOMAIN cache'
                /\ cache'[Key(w)] =
                     [data |-> Encode(frame[w].ret[1]), ttl_ts |-> now + 600]
                /\ resp'[w].status = "200" /\ ~resp'[w].hit
                /\ resp'[w].body = frame[w].ret ]_vars

\* C6 witness: an entry stored at time 0 is found expired and stored anew
\* later, with an expiry counted from the second store
C6_Witness ==
    \E w \in Workers :
        /\ pc[w] = "done" /\ ~resp[w].hit /\ resp[w].status = "200"
        /\ Cardinality(WritesOfKey(Key(w))) = 2
        /\ writes[1].at = 0
        /\ writes[2].at > 600
        /\ cache[Key(w)].ttl_ts = writes[2].at + 600
        /\ cache[Key(w)].data = Encode(resp[w].body[1])

\* The path of the request worker w works on in a step
UrlInStep(w) == IF pc[w] = "idle" THEN req'[w].url ELSE req[w].url

\* C9: a lookup less than 600 s after the last store made for the same
\* path is a hit, whatever the two query strings; a hit returns an entry
\* stored for the path of the request; and a step of a request leaves
\* every entry stored for another path as it is
C9_KeyIsThePath ==
    [][ \A w \in Workers :
          /\ ( /\ Lookup(w)
               /\ WritesOfUrl(req'[w].url) # {}
               /\ now < Last(WritesOfUrl(req'[w].url)).at + 600 )
             => /\ resp'[w].hit
                /\ resp'[w].body = <<Decode(Last(WritesOfUrl(req'[w].url)).data)>>
          /\ (Lookup(w) /\ resp'[w].hit)
             => \E key \in DOMAIN cache :
                    /\ Last(WritesOfKey(key)).url = req'[w].url
                    /\ resp'[w].body = <<Decode(cache[key].data)>>
          /\ pc'[w] # pc[w]
             => \A key \in DOMAIN cache :
                    Last(WritesOfKey(key)).url # UrlInStep(w)
                    => key \in DOMAIN cache' /\ cache'[key] = cache[key] ]_vars

\* C9 witness: w1 has stored an entry for a path, w2 asks for the same path
\* with another query string and is served that entry
C9_Witness ==
    /\ pc["w1"] = "done" /\ ~resp["w1"].hit /\ Succeeded("w1")
    /\ pc["w2"] = "done" /\ resp["w2"].hit
    /\ req["w1"].url = ArchUrl(SnapshotPath, "mips_24kc")
    /\ req["w2"].url = req["w1"].url
    /\ req["w1"].query = "" /\ req["w2"].query = "x=1"
    /\ resp["w2"].body = resp["w1"].body

\* C10: a request that called its handler returns what its own call
\* returned; and when two requests for one key have both called the handler
\* and stored, the entry is the one written last: the value that writer
\* returned, expiring 600 s after that writer stored
C10_LastWriterWins ==
    /\ \A w \in Workers :
          (pc[w] = "done" /\ req[w].func \in Cached /\ ~resp[w].hit /\ Succeeded(w))
          => resp[w].body = frame[w].ret
    /\ \A w1, w2 \in Workers :
          ( /\ w1 # w2
            /\ req[w1].func \in Cached
            /\ pc[w1] = "done" /\ ~resp[w1].hit /\ Succeeded(w1)
            /\ pc[w2] = "done" /\ ~resp[w2].hit /\ Succeeded(w2)
            /\ Key(w1) = Key(w2) )
          => LET last == Last(WritesOfKey(Key(w1)))
             IN  /\ Cardinality(WritesOfKey(Key(w1))) = 2
                 /\ last.by \in {w1, w2}
                 /\ last.data = Encode(resp[last.by].body[1])
                 /\ Key(w1) \in DOMAIN cache
                 /\ cache[Key(w1)] = [data |-> last.data, ttl_ts |-> last.at + 600]

\* C10 witness: two requests for one key, neither served from the cache,
\* both finished within the same second with different results; the first
\* to store was w2, the entry is w1's
C10_Witness ==
    /\ now = 0
    /\ pc["w1"] = "done" /\ ~resp["w1"].hit /\ Succeeded("w1")
    /\ pc["w2"] = "done" /\ ~resp["w2"].hit /\ Succeeded("w2")
    /\ Key("w1") = Key("w2")
    /\ resp["w1"].body # resp["w2"].body
    /\ writes[1].by = "w2" /\ writes[2].by = "w1"
    /\ cache[Key("w1")].data = Encode(resp["w1"].body[1])

\* The items of an iterable
Items(iterable) == {iterable[i] : i \in DOMAIN iterable}

\* A sequence of strings in lexicographically ascending order
Ascending(names) == \A n \in 1..(Len(names) - 1) : LexLess(names[n], names[n + 1])

\* C11: whatever the store holds and in whatever order its sets are
\* iterated, the mapping index builds has one entry per member of
\* "branches", in ascending order of the names, and each entry's versions
\* are the members of that branch's version set in ascending order
C11_DirectoryIsSorted ==
    \A w \in Workers :
        (Called(w, "index") /\ Succeeded(w))
        => LET read == calls[w][1].out[1]
               branches == resp[w].body[1]["branches"]
               names == [n \in DOMAIN branches |-> branches[n][1]]
           IN  /\ Len(names) = Cardinality(Items(read.branches))
               /\ Items(names) = Items(read.branches)
               /\ Ascending(names)
               /\ \A n \in DOMAIN branches :
                    LET versions == branches[n][2]["versions"]
                        members == IF names[n] \in DOMAIN read.versions
                                     THEN Items(read.versions[names[n]]) ELSE {}
                    IN  /\ Len(versions) = Cardinality(members)
                        /\ Items(versions) = members
                        /\ Ascending(versions)

\* C11 witness: the store iterates "23" before "2" and the versions of "2"
\* as "21", "2", "19"; the mapping lists "2" with "19", "2", "21", then "23"
C11_Witness ==
    \E w \in Workers :
        /\ Called(w, "index") /\ Succeeded(w)
        /\ calls[w][1].out[1].branches = <<<<2, 3>>, <<2>>>>
        /\ calls[w][1].out[1].versions[<<2>>] = <<<<2, 1>>, <<2>>, <<1, 9>>>>
        /\ resp[w].body[1]["branches"] =
             << <<<<2>>, One("versions", <<<<1, 9>>, <<2>>, <<2, 1>>>>)>>,
                <<<<2, 3>>, One("versions", <<>>)>> >>

\* The request a worker is handling names a document of the directory mounted
\* at "/json" and has the shape of a route of an aggregator
StaticAndDynamic(w) ==
    /\ req[w] # NoReq
    /\ Mounted(req[w].url, "json")
    /\ NormPath(Tail(req[w].url)) \in env.files
    /\ (MatchesTarget(req[w].url) \/ MatchesArch(req[w].url))

\* C12: a request under "/json" that names a document on disk and has the
\* shape of a route of an aggregator is answered with the document as it is
\* on disk, and no aggregator is called for it
C12_StaticTakesPrecedence ==
    \A w \in Workers :
        StaticAndDynamic(w)
        => /\ req[w].func = "StaticFiles"
           /\ calls[w] = <<>>
           /\ pc[w] = "done"
           /\ resp[w].status = "200"
           /\ resp[w].body = <<One("file", NormPath(Tail(req[w].url)))>>

\* The paths url becomes when one doubled separator is made a single one
SingleSlash(url) ==
    {SubSeq(url, 1, i - 1) \o SubSeq(url, i + 1, Len(url)) :
        i \in {j \in 1..(Len(url) - 1) : url[j] = EmptySegment}}

\* C14: a request whose path has a doubled separator anywhere is answered
\* with a 301 redirect to the path with that separator single, and a request
\* to "/overview" with a 301 redirect to "/json/v1/overview.json"
C14_DoubledSeparatorRedirects ==
    \A w \in Workers :
        /\ (req[w] # NoReq /\ SingleSlash(req[w].url) # {})
           => /\ pc[w] = "done"
              /\ resp[w].status = "301"
              /\ \E target \in SingleSlash(req[w].url) : resp[w].body = <<target>>
        /\ (req[w] # NoReq /\ req[w].url = OverviewUrl)
           => /\ pc[w] = "done"
              /\ resp[w].status = "301"
              /\ resp[w].body = <<StaticUrl(OverviewDocument)>>

\* C13: with the split detected, a directory name resolved and a kmod
\* manifest fetched that has no packages (an empty mapping or no field),
\* json_v1_target_index returns the base manifest as it was fetched
C13_EmptyKmodMergeIsIdentity ==
    \A w \in Workers :
        ( /\ req[w].func = "json_v1_target_index"
          /\ Len(calls[w]) = 4
          /\ calls[w][4].ok
          /\ PackagesOf(calls[w][4].out[1]) = EmptyDict )
        => /\ resp[w].status # "error"
           /\ pc[w] = "set" => frame[w].ret = calls[w][1].out
           /\ pc[w] = "done" => resp[w].body = calls[w][1].out

\* C15: with the split detected, a failure of parse_kernel_version or of the
\* fetch of the kmod manifest ends json_v1_target_index with that error, at
\* the failed call; the base manifest is not returned in its place
C15_KmodFailureFailsCall ==
    \A w \in Workers :
        ( /\ req[w].func = "json_v1_target_index"
          /\ Len(calls[w]) >= 3
          /\ calls[w][2].out = <<TRUE>>
          /\ ~calls[w][Len(calls[w])].ok )
        => /\ pc[w] = "done"
           /\ resp[w].status = "error"
           /\ resp[w].error = "UpstreamFetchError"
           /\ resp[w].body = <<>>
           /\ frame[w].ret = <<>>
           /\ \A n \in 1..(Len(calls[w]) - 1) : calls[w][n].ok

\* C15 witness: the base manifest was fetched and the directory name
\* resolved, then the fetch of the kmod manifest failed
C15_Witness ==
    \E w \in Workers :
        /\ req[w].func = "json_v1_target_index" /\ pc[w] = "done"
        /\ Len(calls[w]) = 4
        /\ calls[w][1].out = <<[packages |-> PkgA1, architecture |-> "x86_64"]>>
        /\ calls[w][3].out = <<"6.6.52-1-abcdef">>
        /\ ~calls[w][4].ok
        /\ resp[w].status = "error"

\* C16: every document json_v1_target_index returns has a "packages" field,
\* whatever base manifest was fetched, and the merge of the kmod packages
\* never fails for want of that field in the base manifest
C16_ReturnedDocumentHasPackages ==
    \A w \in Workers :
        req[w].func = "json_v1_target_index"
        => /\ (Called(w, "json_v1_target_index") /\ Succeeded(w))
              => "packages" \in DOMAIN resp[w].body[1]
           /\ resp[w].error # "KeyError"

\* The collaborators json_v1_target_index calls, in the order of the code
TargetOrder ==
    <<"parse_packages_file", "is_post_kmod_split_build",
      "parse_kernel_version", "parse_packages_file">>

\* C17: json_v1_target_index calls its collaborators in one order, each at
\* most once: the base fetch, the split detection, the directory resolution
\* only after a detected split, the kmod fetch only after a resolved name.
\* json_v1_arch_index resolves the feed list once, before any fetch, and then
\* fetches the feeds one by one in the order of the list, each entry once
C17_CollaboratorOrder ==
    \A w \in Workers :
        LET log == calls[w]
            path == req[w].kwargs["path"]
        IN  /\ req[w].func = "json_v1_target_index"
               => /\ Len(log) <= 4
                  /\ \A n \in DOMAIN log :
                       /\ log[n].op = TargetOrder[n]
                       /\ n < Len(log) => log[n].ok
                  /\ Len(log) >= 1 => log[1].arg = path \o <<Seg("packages")>>
                  /\ Len(log) >= 2 => log[2].arg = path
                  /\ Len(log) >= 3
                       => /\ log[2].out = <<TRUE>>
                          /\ log[3].arg = path \o <<Seg("profiles.json")>>
                  /\ Len(log) = 4
                       => /\ Truthy(log[3].out[1])
                          /\ log[4].arg = path \o <<Seg("kmods"), Seg(log[3].out[1])>>
            /\ (req[w].func = "json_v1_arch_index" /\ Len(log) >= 1)
               => LET feed_url == path \o <<Seg(req[w].kwargs["arch"])>>
                  IN  /\ log[1].op = "parse_feeds_conf"
                      /\ log[1].arg = feed_url
                      /\ Len(log) >= 2 => log[1].ok
                      /\ \A n \in 2..Len(log) :
                           /\ n - 1 <= Len(log[1].out[1])
                           /\ log[n].op = "parse_packages_file"
                           /\ log[n].arg = feed_url \o <<Seg(log[1].out[1][n - 1])>>
                           /\ n < Len(log) => log[n].ok
                      /\ (Called(w, "json_v1_arch_index") /\ Succeeded(w))
                           => Len(log) = 1 + Len(log[1].out[1])

\* C17 witness: a list of two different feeds, fetched in its order
C17_Witness ==
    \E w \in Workers :
        /\ Called(w, "json_v1_arch_index") /\ Succeeded(w)
        /\ calls[w][1].out = <<<<"luci", "base">>>>
        /\ Len(calls[w]) = 3
        /\ calls[w][2].arg = SnapshotPath \o <<Seg("x86_64"), Seg("luci")>>
        /\ calls[w][3].arg = SnapshotPath \o <<Seg("x86_64"), Seg("base")>>

\* A call of worker w to a collaborator fails in this step
CallFails(w) ==
    /\ Len(calls'[w]) > Len(calls[w])
    /\ ~calls'[w][Len(calls'[w])].ok

\* C18: a step in which the computation of a cached handler fails ends the
\* request with the error and leaves the cache as it is: the entry of the
\* key is not written (one that was absent is still absent unless another
\* request stored it), and the next request for the key, finding no entry,
\* calls the handler again
C18_FailureIsNotCached ==
    [][ /\ \A w \in Workers :
             CallFails(w)
             => /\ cache' = cache
                /\ writes' = writes
                /\ pc'[w] = "done"
                /\ resp'[w].status = "error"
                /\ resp'[w].body = <<>>
                /\ Key(w) \in DOMAIN cache
                     => \E i \in DOMAIN writes :
                           writes[i].key = Key(w) /\ writes[i].by # w
        /\ \A v, w \in Workers :
             ( /\ pc[v] = "done" /\ resp[v].status = "error"
               /\ Key(v) \notin DOMAIN cache
               /\ pc[w] = "idle" /\ pc'[w] # "idle"
               /\ KeyOf(req'[w]) = Key(v) )
             => /\ pc'[w] = FirstStep(req[v].func)
                /\ ~resp'[w].hit
                /\ calls'[w] = <<>> ]_vars

\* C18 witness: the request of one worker failed, nothing is stored under
\* its key, and the next request for the key has the handler at work again
C18_Witness ==
    \E v, w \in Workers :
        /\ pc[v] = "done" /\ resp[v].status = "error"
        /\ req[v].func = "json_v1_arch_index"
        /\ Len(calls[v]) = 2 /\ ~calls[v][2].ok
        /\ cache = EmptyDict /\ writes = <<>>
        /\ Key(w) = Key(v)
        /\ pc[w] = "arch_feed"

\* The right-biased union of the packages of a sequence of manifests
RECURSIVE UnionOf(_)
UnionOf(manifests) ==
    IF manifests = <<>> THEN EmptyDict
    ELSE Update(UnionOf(SubSeq(manifests, 1, Len(manifests) - 1)),
                PackagesOf(manifests[Len(manifests)]))

\* The handler of worker w made every call its request needs, for the path
\* of its request, and every call returned
Complete(w) ==
    LET log == calls[w]
        url == req[w].url
    IN  /\ log # <<>>
        /\ \A n \in DOMAIN log : log[n].ok
        /\ CASE req[w].func = "index" -> url = RootUrl /\ Len(log) = 1
             [] req[w].func = "json_v1_target_index" ->
                  /\ MatchesTarget(url)
                  /\ log[1].arg = PathParam(url) \o <<Seg("packages")>>
                  /\ Len(log) >= 2
                  /\ log[2].out = <<TRUE>> => Len(log) >= 3
                  /\ Len(log) >= 3 /\ Truthy(log[3].out[1]) => Len(log) = 4
             [] req[w].func = "json_v1_arch_index" ->
                  /\ MatchesArch(url)
                  /\ log[1].arg = PathParam(url) \o <<Seg(url[Len(url)][1])>>
                  /\ Len(log) = 1 + Len(log[1].out[1])
             [] OTHER -> FALSE

\* What the calls of worker w add up to
Computed(w) ==
    LET log == calls[w]
    IN  CASE req[w].func = "index" -> One("branches", Branches(log[1].out[1]))
          [] req[w].func = "json_v1_target_index" ->
               IF Len(log) = 4
                 THEN [log[1].out[1] EXCEPT !["packages"] =
                          Update(@, PackagesOf(log[4].out[1]))]
                 ELSE log[1].out[1]
          [] req[w].func = "json_v1_arch_index" -> UnionOf(FeedManifests(w))

\* C19: whatever the interleaving of the requests, an entry of the cache is
\* only ever written with the whole result of one call of the handler, made
\* for the path of that entry's key, all of whose collaborator calls
\* returned: every step that adds or changes an entry stores what the calls
\* of the one worker that finished add up to, under the key of its request
C19_EntriesAreCompleteResults ==
    [][ \A key \in DOMAIN cache' :
          (key \notin DOMAIN cache \/ cache'[key] # cache[key])
          => \E w \in Workers :
                /\ pc[w] = "set" /\ pc'[w] = "done"
                /\ key = Key(w)
                /\ key = <<req[w].func, req[w].kwargs>>
                /\ Complete(w)
                /\ Decode(cache'[key].data) = Computed(w)
                /\ resp'[w].body = <<Computed(w)>> ]_vars

\* C19 witness: the entry of a split target holds the merged document of
\* one call while another call for the same key has fetched a different
\* base manifest and not yet merged
C19_Witness ==
    \E v, w \in Workers :
        /\ pc[v] = "done" /\ Succeeded(v) /\ Len(calls[v]) = 4
        /\ req[v].func = "json_v1_target_index"
        /\ Key(w) = Key(v)
        /\ pc[w] = "target_kmod_packages"
        /\ frame[w].base_packages # calls[v][1].out[1]
        /\ Key(v) \in DOMAIN cache
        /\ Decode(cache[Key(v)].data) = resp[v].body[1]
        /\ resp[v].body[1] # calls[v][1].out[1]

====
